---- MODULE Spec2Model ----
(***************************************************************************)
(* A model of the novaCTF plugin's protocols:                              *)
(*   - ProtNovaCtf (protocols/protocol_novactf.py): specification Spec     *)
(*   - ProtNovaCtf.convertInputStep for one tilt series: SpecConvert       *)
(*   - ProtNovaCtfTomoDefocus + ProtNovaCtfTomoReconstruction              *)
(*     (protocol_tomoDefocus.py, protocol_tomoReconstruction.py):          *)
(*     SpecWorkflow                                                        *)
(*   - the _validate/_warnings functions: SpecValidate                     *)
(*   - either of the two runs that produce tomograms: SpecOutputs          *)
(* The host workflow engine is modelled by its step contract: a step may  *)
(* start once all its prerequisites have finished, any number of started  *)
(* steps run in parallel, and a step that raises fails the run.            *)
(***************************************************************************)
EXTENDS Integers, Sequences, FiniteSets, TLC

\* ------------------------------------------------------------------ bounds
MaxTs == 2          \* tilt-series identifiers are 1..MaxTs
MaxStacks == 2      \* the defocus program writes at most MaxStacks defocus files
MaxViews == 3       \* acquisition orders of a tilt series are 1..MaxViews

TsIds == 1..MaxTs
NoTs == 0

VARIABLES
    \* ---- ProtNovaCtf
    inTsIds,              \* tsIds of inputSetOfTiltSeries
    inCtfIds,             \* tsIds of inputSetOfCtfTomoSeries
    phase,                \* "new", "initFailed", "running", "finished", "failed"
    tsDict,               \* key set of self.tsDict ({} while it is None)
    ctfDict,              \* key set of self.ctfDict ({} while it is None)
    nonMatchingTsIdsMsg,  \* the tsIds named in the message ({} while unset)
    steps,                \* the inserted steps: index -> [func, ts, pre]
    status,               \* index -> "new" | "running" | "finished" | "failed"
    failedItems,          \* self.failedItems, as a set
    finalFile,            \* tsIds whose <extra>/<tsId>/<tsId>.mrc exists
    nDefocus,             \* tsId -> number of <tsId>.defocus_* files in tmp
    calls,                \* tsId -> the external programs run, in order
    attempts,             \* tsId -> the calls made to run a program, bound or not
    extFailed,            \* tsId -> some external program returned an error
    caught,               \* indices of the steps whose except block ran
    tomoSets,             \* the SetOfTomograms objects created: id -> [items, stream]
    tomoAttr,             \* id of the set defined as the Tomograms output (0: none)
    lock,                 \* index of the step holding self._lock (0: free)
    coPc,                 \* index -> where a createOutputStep is in its body
    coSet,                \* index -> id of the set its outputTomos refers to
    \* ---- ProtNovaCtf.convertInputStep of one tilt series
    cvIn,                 \* the tilt series and its CTF
    cvOut,                \* the files written, and whether the step failed
    \* ---- _validate / _warnings
    vIn,                  \* the protocol validated and its inputs
    vOut,                 \* the messages returned
    \* ---- ProtNovaCtfTomoDefocus and the ProtNovaCtfTomoReconstruction it triggers
    wfIn,                 \* ctfEstimationType, the two tilt-series pointers, the parameters
    dPhase,               \* defocus run: "new", "running", "finished", "failed"
    dSteps,               \* defocus run: index -> [func, ts, pre]
    dStatus,              \* defocus run: index -> status
    dfFiles,              \* tsId -> the k with <extra>/<tsId>/<tsId>.defocus_<k> present
    numberOfIntermediateStacks,  \* the list of the defocus run
    scheduled,            \* the protocols passed to project.scheduleProtocol
    rPhase,               \* reconstruction run: "new", "running", "finished", "failed"
    rInput,               \* reconstruction run: what getInputTs() returned
    rSteps,               \* reconstruction run: index -> [func, ts, counter, pre]
    rStatus,              \* reconstruction run: index -> status
    rFinal,               \* tsIds whose reconstructed <extra>/<tsId>/<name>.mrc exists
    wfExtFailed,          \* some external program of the workflow returned an error
    rSets,                \* the SetOfTomograms objects created: id -> [items, stream]
    rAttr,                \* id of the set that is self.outputSetOfTomograms (0: none)
    rPc,                  \* index -> where a createOutputStep is in its body
    rSet                  \* index -> id of the set its outputTomos refers to

novaVars == <<inTsIds, inCtfIds, phase, tsDict, ctfDict, nonMatchingTsIdsMsg,
              steps, status, failedItems, finalFile, nDefocus, calls, attempts,
              extFailed, caught, tomoSets, tomoAttr, lock, coPc, coSet>>

convVars == <<cvIn, cvOut>>
valVars == <<vIn, vOut>>

wfVars == <<wfIn, dPhase, dSteps, dStatus, dfFiles, numberOfIntermediateStacks,
            scheduled, rPhase, rInput, rSteps, rStatus, rFinal, wfExtFailed,
            rSets, rAttr, rPc, rSet>>

vars == <<novaVars, convVars, valVars, wfVars>>

\* what a specification of one protocol leaves alone
NovaIdle == UNCHANGED <<convVars, valVars, wfVars>>
ConvIdle == UNCHANGED <<novaVars, valVars, wfVars>>
ValIdle == UNCHANGED <<novaVars, convVars, wfVars>>
WfIdle == UNCHANGED <<novaVars, convVars, valVars>>

\* ------------------------------------------------------------ helpers
Rank(t, S) == Cardinality({u \in S : u < t})

\* ProtNovaCtf._initialize: the matching and the non-matching tsIds
matchingTsIds(tsIds, ctfTsIds) == tsIds \cap ctfTsIds
\* (mutant: the difference instead of the symmetric difference)
nonMatchingTsIds_OneSided(tsIds, ctfTsIds) == tsIds \ ctfTsIds
nonMatchingTsIds(tsIds, ctfTsIds) == (tsIds \cup ctfTsIds) \ (tsIds \cap ctfTsIds)

\* (mutant: the comprehension without its filter)
tsDictKeys_Unfiltered(tsIds, ctfTsIds) == tsIds
\* the keys of the two dictionaries built by _initialize
tsDictKeys(tsIds, ctfTsIds) == {t \in tsIds : t \in matchingTsIds(tsIds, ctfTsIds)}
ctfDictKeys(tsIds, ctfTsIds) == {t \in ctfTsIds : t \in matchingTsIds(tsIds, ctfTsIds)}

StepFuncs == <<"convertInputStep", "computeDefocusStep",
               "computeReconstructionStep", "createOutputStep">>

\* (mutant: closeOutputSetStep waits for the last createOutputStep only)
InsertedSteps_CloseAfterLast(keys) ==
    LET m == Cardinality(keys)
        tsAt(k) == CHOOSE t \in keys : Rank(t, keys) = k
    IN [i \in 1..(4 * m + 1) |->
          IF i = 4 * m + 1
          THEN [func |-> "closeOutputSetStep", ts |-> NoTs, pre |-> {4 * m}]
          ELSE LET k == (i - 1) \div 4
                   j == (i - 1) % 4
               IN [func |-> StepFuncs[j + 1], ts |-> tsAt(k),
                   pre |-> IF j = 0 THEN {} ELSE {i - 1}]]

\* (mutant: convertInputStep inserted without prerequisites=[], so that it
\* waits for the step inserted before it)
InsertedSteps_Chained(keys) ==
    LET m == Cardinality(keys)
        tsAt(k) == CHOOSE t \in keys : Rank(t, keys) = k
    IN [i \in 1..(4 * m + 1) |->
          IF i = 4 * m + 1
          THEN [func |-> "closeOutputSetStep", ts |-> NoTs,
                pre |-> {4 * k + 4 : k \in 0..(m - 1)}]
          ELSE LET k == (i - 1) \div 4
                   j == (i - 1) % 4
               IN [func |-> StepFuncs[j + 1], ts |-> tsAt(k),
                   pre |-> IF i = 1 THEN {} ELSE {i - 1}]]
\* ProtNovaCtf._insertAllSteps: the steps inserted for the keys of tsDict
InsertedSteps(keys) ==
    LET m == Cardinality(keys)
        tsAt(k) == CHOOSE t \in keys : Rank(t, keys) = k
    IN [i \in 1..(4 * m + 1) |->
          IF i = 4 * m + 1
          THEN [func |-> "closeOutputSetStep", ts |-> NoTs,
                pre |-> {4 * k + 4 : k \in 0..(m - 1)}]
          ELSE LET k == (i - 1) \div 4
                   j == (i - 1) % 4
               IN [func |-> StepFuncs[j + 1], ts |-> tsAt(k),
                   pre |-> IF j = 0 THEN {} ELSE {i - 1}]]

NoTomograms == [defined |-> FALSE, items |-> <<>>, stream |-> "none"]
\* (mutant: a set created without setStreamState(Set.STREAM_OPEN))
NewOpenSet_StreamNotSet == [items |-> <<>>, stream |-> "CLOSED"]
\* a SetOfTomograms as _getOutputTomoSet and getOutputSetOfTomograms create it
NewOpenSet == [items |-> <<>>, stream |-> "OPEN"]
\* the Tomograms output as the protocol sees it through getattr
Tomograms ==
    IF tomoAttr = 0 THEN NoTomograms
    ELSE [defined |-> TRUE, items |-> tomoSets[tomoAttr].items,
          stream |-> tomoSets[tomoAttr].stream]
outVars == <<tomoSets, tomoAttr, lock, coPc, coSet>>

InitNova ==
    /\ inTsIds \in SUBSET TsIds
    /\ inCtfIds \in SUBSET TsIds
    /\ phase = "new"
    /\ tsDict = {}
    /\ ctfDict = {}
    /\ nonMatchingTsIdsMsg = {}
    /\ steps = <<>>
    /\ status = <<>>
    /\ failedItems = {}
    /\ finalFile \in SUBSET TsIds
    /\ nDefocus \in [TsIds -> 0..MaxStacks]
    /\ calls = [t \in TsIds |-> <<>>]
    /\ attempts = [t \in TsIds |-> <<>>]
    /\ extFailed = [t \in TsIds |-> FALSE]
    /\ caught = {}
    /\ tomoSets = <<>>
    /\ tomoAttr = 0
    /\ lock = 0
    /\ coPc = <<>>
    /\ coSet = <<>>

\* _insertAllSteps (with _initialize, which it calls first)
InsertAllSteps ==
    /\ phase = "new"
    /\ IF matchingTsIds(inTsIds, inCtfIds) = {}
       THEN /\ phase' = "initFailed"
            /\ UNCHANGED <<tsDict, ctfDict, nonMatchingTsIdsMsg, steps, status,
                           coPc, coSet>>
       ELSE /\ nonMatchingTsIdsMsg' = nonMatchingTsIds(inTsIds, inCtfIds)
            /\ tsDict' = tsDictKeys(inTsIds, inCtfIds)
            /\ ctfDict' = ctfDictKeys(inTsIds, inCtfIds)
            /\ steps' = InsertedSteps(tsDict')
            /\ status' = [i \in DOMAIN steps' |-> "new"]
            /\ coPc' = [i \in DOMAIN steps' |-> "exists"]
            /\ coSet' = [i \in DOMAIN steps' |-> 0]
            /\ phase' = "running"
    /\ UNCHANGED <<inTsIds, inCtfIds, failedItems, finalFile, nDefocus, calls, attempts,
                   extFailed, caught, tomoSets, tomoAttr, lock>>
    /\ NovaIdle

\* the host runner starts a step whose prerequisites have all finished
StartStep(i) ==
    /\ phase = "running"
    /\ status[i] = "new"
    /\ \A p \in steps[i].pre : status[p] = "finished"
    /\ status' = [status EXCEPT ![i] = "running"]
    /\ UNCHANGED <<inTsIds, inCtfIds, phase, tsDict, ctfDict, nonMatchingTsIdsMsg,
                   steps, failedItems, finalFile, nDefocus, calls, attempts, extFailed,
                   caught, outVars>>
    /\ NovaIdle

\* ------------------------------------------------- external programs
\* Plugin.runNovactf(cls, protocol, program, args, cwd=None): whether a call
\* with nPos positional arguments and the keyword names kw binds to it
\* (otherwise Python raises TypeError before any program is run)
runNovactfParams == <<"protocol", "program", "args", "cwd">>
runNovactfBinds(nPos, kw) ==
    /\ nPos <= Len(runNovactfParams)
    /\ kw \subseteq {runNovactfParams[i] : i \in (nPos + 1)..Len(runNovactfParams)}
    /\ \A i \in 1..3 : i <= nPos \/ runNovactfParams[i] \in kw

\* how ProtNovaCtf calls it: Plugin.runNovactf(self, **params)
NovaCtfCall(alg, idx) ==
    [prog |-> "novaCTF", alg |-> alg, idx |-> idx, nPos |-> 1,
     kw |-> {"-Algorithm", "-InputProjections", "-TILTFILE"},
     inp |-> <<>>, out |-> <<>>]
\* ImodPlugin.runImod(self, program, args)
ImodCall(prog, idx) ==
    [prog |-> prog, alg |-> "", idx |-> idx, nPos |-> 3, kw |-> {},
     inp |-> <<>>, out |-> <<>>]

CallBinds(c) == c.prog # "novaCTF" \/ runNovactfBinds(c.nPos, c.kw)

\* The calls of plan made one after the other until one raises: a call that
\* does not bind raises without running anything, the call number failAt runs
\* and returns an error (0: none fails). tried are the calls made, ran those
\* of them that started their program.
RECURSIVE ExecFrom(_, _, _)
ExecFrom(plan, p, failAt) ==
    IF p > Len(plan) THEN [ran |-> <<>>, tried |-> <<>>, raised |-> FALSE]
    ELSE IF ~CallBinds(plan[p])
         THEN [ran |-> <<>>, tried |-> <<plan[p]>>, raised |-> TRUE]
    ELSE IF p = failAt
         THEN [ran |-> <<plan[p]>>, tried |-> <<plan[p]>>, raised |-> TRUE]
    ELSE LET r == ExecFrom(plan, p + 1, failAt)
         IN [ran |-> <<plan[p]>> \o r.ran, tried |-> <<plan[p]>> \o r.tried,
             raised |-> r.raised]
Exec(plan, failAt) == ExecFrom(plan, 1, failAt)

\* the log entry of a call
Logged(c) == [prog |-> c.prog, alg |-> c.alg, idx |-> c.idx,
              inp |-> c.inp, out |-> c.out]
LogOf(ran) == [k \in 1..Len(ran) |-> Logged(ran[k])]

\* the files of the tmp folder of a tilt series: _getTsTmpFileName,
\* _getStackTsFnByIndex, _getAliStackTsFnByIndex, _getFlipStackFnByIndex,
\* _getFilterStackFnByIndex
TsTmpFileName == <<"mrc">>
StackTsFnByIndex(i) == <<"mrc", i>>
AliStackTsFnByIndex(i) == <<"ali.mrc", i>>
FlipStackFnByIndex(i) == <<"flip.mrc", i>>
FilterStackFnByIndex(i) == <<"filter.mrc", i>>
\* a call with the file it reads and the file it writes
WithFiles(c, inp, out) == [c EXCEPT !.inp = inp, !.out = out]

\* computeDefocusStep: the stages of intermediate stack i; outFn is the
\* variable of the loop body, reassigned when the tilt series has alignment
RECURSIVE StackStages(_, _, _)
StackStages(i, n, ali) ==
    IF i >= n THEN <<>>
    ELSE LET outFn0 == StackTsFnByIndex(i)
             outFn == IF ali THEN AliStackTsFnByIndex(i) ELSE outFn0
         IN <<WithFiles(NovaCtfCall("ctfCorrection", i), TsTmpFileName, outFn0)>>
            \o (IF ali
                THEN <<WithFiles(ImodCall("newstack", i), outFn0, AliStackTsFnByIndex(i))>>
                ELSE <<>>)
            \o <<WithFiles(ImodCall("clip", i), outFn, FlipStackFnByIndex(i)),
                 WithFiles(NovaCtfCall("filterProjections", i), FlipStackFnByIndex(i),
                           FilterStackFnByIndex(i))>>
            \o StackStages(i + 1, n, ali)
\* computeDefocusStep: all the calls it makes when nothing raises
computeDefocusPlan(n, ali) ==
    <<NovaCtfCall("defocus", 0)>> \o StackStages(0, n, ali)
\* computeReconstructionStep: all the calls it makes when nothing raises
computeReconstructionPlan ==
    <<NovaCtfCall("3dctf", 0), ImodCall("trimvol", 0)>>

IsStep(i, f) == status[i] = "running" /\ steps[i].func = f
Finish(i) == status' = [status EXCEPT ![i] = "finished"]

\* ------------------------------------------------- ProtNovaCtf steps
\* convertInputStep: raised says whether the conversion raised (no common
\* acquisition order, a file that cannot be written); the exception is caught
convertInputStep(i) ==
    /\ IsStep(i, "convertInputStep")
    /\ \E raised \in BOOLEAN :
         /\ failedItems' = IF raised THEN failedItems \cup {steps[i].ts} ELSE failedItems
         /\ caught' = IF raised THEN caught \cup {i} ELSE caught
    /\ Finish(i)
    /\ UNCHANGED <<inTsIds, inCtfIds, phase, tsDict, ctfDict, nonMatchingTsIdsMsg,
                   steps, finalFile, nDefocus, calls, attempts, extFailed, outVars>>
    /\ NovaIdle

\* getNumberOfStacks after a defocus invocation that writes the files
\* 0..n-1 into a folder that held the files 0..had-1
StacksAfterDefocus(had, n) == IF n > had THEN n ELSE had

\* the except block of computeDefocusStep logs and does nothing else
computeDefocusStep(i) ==
    LET t == steps[i].ts IN
    /\ IsStep(i, "computeDefocusStep")
    /\ IF t \in failedItems
       THEN UNCHANGED <<nDefocus, calls, attempts, extFailed, caught>>
       ELSE \E n \in 0..MaxStacks, ali \in BOOLEAN :
            LET plan == computeDefocusPlan(StacksAfterDefocus(nDefocus[t], n), ali) IN
            \E failAt \in 0..Len(plan) :
              LET r == Exec(plan, failAt)
                  defocusOk == Len(r.ran) >= 1 /\ failAt # 1
              IN /\ calls' = [calls EXCEPT ![t] = @ \o LogOf(r.ran)]
                 /\ attempts' = [attempts EXCEPT ![t] = @ \o LogOf(r.tried)]
                 /\ extFailed' = [extFailed EXCEPT
                                    ![t] = @ \/ (failAt # 0 /\ Len(r.ran) >= failAt)]
                 /\ nDefocus' = [nDefocus EXCEPT
                                   ![t] = IF defocusOk THEN StacksAfterDefocus(@, n) ELSE @]
                 /\ caught' = IF r.raised THEN caught \cup {i} ELSE caught
    /\ Finish(i)
    /\ UNCHANGED <<inTsIds, inCtfIds, phase, tsDict, ctfDict, nonMatchingTsIdsMsg,
                   steps, failedItems, finalFile, outVars>>
    /\ NovaIdle

computeReconstructionStep(i) ==
    LET t == steps[i].ts IN
    /\ IsStep(i, "computeReconstructionStep")
    /\ IF t \in failedItems
       THEN UNCHANGED <<nDefocus, calls, attempts, extFailed, finalFile, caught>>
       ELSE \E failAt \in 0..Len(computeReconstructionPlan) :
              LET r == Exec(computeReconstructionPlan, failAt)
                  trimvolOk == Len(r.ran) = 2 /\ ~r.raised
              IN /\ calls' = [calls EXCEPT ![t] = @ \o LogOf(r.ran)]
                 /\ attempts' = [attempts EXCEPT ![t] = @ \o LogOf(r.tried)]
                 /\ extFailed' = [extFailed EXCEPT
                                    ![t] = @ \/ (failAt # 0 /\ Len(r.ran) >= failAt)]
                 /\ finalFile' = IF trimvolOk THEN finalFile \cup {t} ELSE finalFile
                 \* cleanPath of the tmp folder once the final file exists
                 /\ nDefocus' = [nDefocus EXCEPT
                                   ![t] = IF ~r.raised /\ t \in finalFile' THEN 0 ELSE @]
                 /\ caught' = IF r.raised THEN caught \cup {i} ELSE caught
    /\ Finish(i)
    /\ UNCHANGED <<inTsIds, inCtfIds, phase, tsDict, ctfDict, nonMatchingTsIdsMsg,
                   steps, failedItems, outVars>>
    /\ NovaIdle

\* _getFinalRecTomoFn: <extra>/<tsId>/<tsId>.mrc
FinalRecTomoFn(t) == <<"extra", t, "mrc">>
\* (mutant: the tomogram given the reconstruction left in the tmp folder)
NewTomogram_TmpFile(t) ==
    [fileName |-> <<"tmp", t, "rec.mrc">>, tsId |-> t,
     samplingRate |-> "inputSamplingRate", acquisition |-> <<"acquisition", t>>]
\* createOutputStep: the tomogram it builds for tsId t
NewTomogram(t) ==
    [fileName |-> FinalRecTomoFn(t), tsId |-> t,
     samplingRate |-> "inputSamplingRate", acquisition |-> <<"acquisition", t>>]

CoRest == UNCHANGED <<inTsIds, inCtfIds, phase, tsDict, ctfDict, nonMatchingTsIdsMsg,
                      steps, failedItems, finalFile, nDefocus, calls, attempts, extFailed>>
CoAt(i, pc) == IsStep(i, "createOutputStep") /\ coPc[i] = pc

\* createOutputStep, up to "with self._lock": "tsId is self.failedItems"
\* compares a string with the list itself and is never true, so the step
\* never returns early; without the final file it only logs
createOutputStep_exists(i) ==
    /\ CoAt(i, "exists")
    /\ IF steps[i].ts \in finalFile
       THEN coPc' = [coPc EXCEPT ![i] = "lock"] /\ UNCHANGED status
       ELSE Finish(i) /\ UNCHANGED coPc
    /\ UNCHANGED <<caught, tomoSets, tomoAttr, lock, coSet>>
    /\ CoRest /\ NovaIdle

\* (mutant: the body entered without waiting for the lock)
lockFree_NotHeld(holder) == TRUE
\* self._lock can be taken when no step holds it
lockFree(holder) == holder = 0

createOutputStep_lock(i) ==
    /\ CoAt(i, "lock")
    /\ lockFree(lock)
    /\ lock' = i
    /\ coPc' = [coPc EXCEPT ![i] = "getSet"]
    /\ UNCHANGED <<status, caught, tomoSets, tomoAttr, coSet>>
    /\ CoRest /\ NovaIdle

\* _getOutputTomoSet up to its test: the set of the attribute is taken when
\* there is one (a defined set is taken as true by "if outTomos")
createOutputStep_getSet(i) ==
    /\ CoAt(i, "getSet")
    /\ IF tomoAttr # 0
       THEN coSet' = [coSet EXCEPT ![i] = tomoAttr] /\ coPc' = [coPc EXCEPT ![i] = "append"]
       ELSE UNCHANGED coSet /\ coPc' = [coPc EXCEPT ![i] = "create"]
    /\ UNCHANGED <<status, caught, lock, tomoSets, tomoAttr>>
    /\ CoRest /\ NovaIdle

\* the else branch of _getOutputTomoSet: a new open set is created, defined
\* as the Tomograms output and returned
createOutputStep_create(i) ==
    /\ CoAt(i, "create")
    /\ tomoSets' = Append(tomoSets, NewOpenSet)
    /\ tomoAttr' = Len(tomoSets')
    /\ coSet' = [coSet EXCEPT ![i] = Len(tomoSets')]
    /\ coPc' = [coPc EXCEPT ![i] = "append"]
    /\ UNCHANGED <<status, caught, lock>>
    /\ CoRest /\ NovaIdle

\* the tomogram is built and appended to outputTomos; an exception on the
\* way (a final file that cannot be read, a set that cannot be written) is
\* caught; leaving the with block releases the lock
createOutputStep_append(i) ==
    /\ CoAt(i, "append")
    /\ \E raised \in BOOLEAN :
         IF raised
         THEN caught' = caught \cup {i} /\ UNCHANGED tomoSets
         ELSE /\ tomoSets' = [tomoSets EXCEPT
                                 ![coSet[i]].items = Append(@, NewTomogram(steps[i].ts))]
              /\ UNCHANGED caught
    /\ lock' = IF lock = i THEN 0 ELSE lock
    /\ Finish(i)
    /\ UNCHANGED <<tomoAttr, coPc, coSet>>
    /\ CoRest /\ NovaIdle

\* (mutant: raises as soon as one tilt series has no tomogram)
closeRaises_AnyMissing(out) == Len(out.items) < Cardinality(tsDict)
\* closeOutputSetStep raises when there is no output or it is empty
closeRaises(out) == ~out.defined \/ Len(out.items) = 0

closeOutputSetStep(i) ==
    /\ IsStep(i, "closeOutputSetStep")
    /\ tomoSets' = IF tomoAttr # 0
                   THEN [tomoSets EXCEPT ![tomoAttr].stream = "CLOSED"] ELSE tomoSets
    /\ UNCHANGED tomoAttr
    /\ IF closeRaises(Tomograms')
       THEN status' = [status EXCEPT ![i] = "failed"] /\ phase' = "failed"
       ELSE Finish(i) /\ phase' = "finished"
    /\ UNCHANGED <<inTsIds, inCtfIds, tsDict, ctfDict, nonMatchingTsIdsMsg,
                   steps, failedItems, finalFile, nDefocus, calls, attempts, extFailed,
                   caught, lock, coPc, coSet>>
    /\ NovaIdle

Next ==
    \/ InsertAllSteps
    \/ \E i \in DOMAIN steps : StartStep(i)
    \/ \E i \in DOMAIN steps : convertInputStep(i)
    \/ \E i \in DOMAIN steps : computeDefocusStep(i)
    \/ \E i \in DOMAIN steps : computeReconstructionStep(i)
    \/ \E i \in DOMAIN steps : createOutputStep_exists(i)
    \/ \E i \in DOMAIN steps : createOutputStep_lock(i)
    \/ \E i \in DOMAIN steps : createOutputStep_getSet(i)
    \/ \E i \in DOMAIN steps : createOutputStep_create(i)
    \/ \E i \in DOMAIN steps : createOutputStep_append(i)
    \/ \E i \in DOMAIN steps : closeOutputSetStep(i)

\* --------------------------- ProtNovaCtf.convertInputStep, one tilt series
AcqOrders == 1..MaxViews
NoFile == [written |-> FALSE, views |-> {}]
FileOf(views) == [written |-> TRUE, views |-> views]
NoConvIn == [tsItems |-> {}, tsEnabled |-> {}, ctfItems |-> {}, ctfEnabled |-> {},
             hasTransform |-> FALSE]
NoConvOut == [done |-> FALSE, failed |-> FALSE, stack |-> NoFile, xf |-> NoFile,
              tlt |-> NoFile, defocus |-> NoFile]

\* tomo.utils.getCommonTsAndCtfElements(ts, ctf): the acquisition orders of
\* the enabled tilt images that are also those of an enabled CTF
getCommonTsAndCtfElements(in) == in.tsEnabled \cap in.ctfEnabled

\* what each writer puts in its file: the items of the object it is given
\* whose acquisition order is in the presentAcqOrders it is passed
stackViews(in, presentAcqOrders) == {v \in in.tsItems : v \in presentAcqOrders}
xfFileViews(in, presentAcqOrders) == {v \in in.tsItems : v \in presentAcqOrders}
tltFileViews(in, presentAcqOrders) == {v \in in.tsItems : v \in presentAcqOrders}
\* (mutant: the defocus file written without presentAcqOrders)
defocusFileViews_AllCtfs(in, presentAcqOrders) == in.ctfItems
defocusFileViews(in, presentAcqOrders) == {v \in in.ctfItems : v \in presentAcqOrders}

InitConvert ==
    /\ cvIn \in {in \in [tsItems : SUBSET AcqOrders, tsEnabled : SUBSET AcqOrders,
                         ctfItems : SUBSET AcqOrders, ctfEnabled : SUBSET AcqOrders,
                         hasTransform : BOOLEAN] :
                   /\ in.tsItems # {}
                   /\ in.tsEnabled \subseteq in.tsItems
                   /\ in.ctfEnabled \subseteq in.ctfItems}
    /\ cvOut = NoConvOut

\* the body of convertInputStep
convertOne ==
    /\ ~cvOut.done
    /\ LET presentAcqOrders == getCommonTsAndCtfElements(cvIn) IN
       cvOut' = IF presentAcqOrders = {}
                THEN [NoConvOut EXCEPT !.done = TRUE, !.failed = TRUE]
                ELSE [done |-> TRUE, failed |-> FALSE,
                      stack |-> FileOf(stackViews(cvIn, presentAcqOrders)),
                      xf |-> IF cvIn.hasTransform
                             THEN FileOf(xfFileViews(cvIn, presentAcqOrders))
                             ELSE NoFile,
                      tlt |-> FileOf(tltFileViews(cvIn, presentAcqOrders)),
                      defocus |-> FileOf(defocusFileViews(cvIn, presentAcqOrders))]
    /\ UNCHANGED cvIn
    /\ ConvIdle

NextConvert == convertOne

\* ------------------------------------------------ _validate and _warnings
ImodDefocusFlags == {0, 1, 4, 5, 37}
NoValIn == [prot |-> "none", flagAttr |-> FALSE, defFlag |-> 0,
            correctAstigmatism |-> FALSE, hasTransform |-> FALSE,
            tsGiven |-> FALSE, applyAlignment |-> FALSE, doEraseGold |-> FALSE,
            landmarks |-> FALSE]
NoValOut == [done |-> FALSE, raised |-> FALSE, errors |-> {}, warnings |-> {}]

\* (mutant: the check made whatever correctAstigmatism says)
novaValidate_IgnoresOption(in) ==
    IF in.flagAttr /\ in.defFlag \in {0, 4}
    THEN {"CTF estimation does not have astigmatism values."} ELSE {}
\* ProtNovaCtf._validate
novaValidate(in) ==
    IF in.flagAttr /\ in.defFlag \in {0, 4} /\ in.correctAstigmatism
    THEN {"CTF estimation does not have astigmatism values."} ELSE {}
\* ProtNovaCtf._warnings
novaWarnings(in) ==
    IF ~in.hasTransform
    THEN {"The introduced tilt-series do not have alignment information."} ELSE {}
\* ProtNovaCtfTomoReconstruction._validate: getInputTs() is None when the
\* defocus run has no tilt series of its own, and "ts.getFirstItem()" then
\* raises; it is evaluated only when applyAlignment is on
reconValidateRaises(in) == in.applyAlignment /\ ~in.tsGiven
\* ProtNovaCtfTomoReconstruction._validate
reconValidate(in) ==
    (IF in.applyAlignment /\ ~in.hasTransform
     THEN {"Input tilt-series do not have alignment information! You cannot apply alignment."}
     ELSE {})
    \cup
    (IF in.doEraseGold /\ ~in.landmarks
     THEN {"You have to provide input set of landmarks to erase gold."} ELSE {})

InitValidate ==
    /\ vIn \in [prot : {"ProtNovaCtf", "ProtNovaCtfTomoReconstruction"},
                flagAttr : BOOLEAN, defFlag : ImodDefocusFlags,
                correctAstigmatism : BOOLEAN, hasTransform : BOOLEAN,
                tsGiven : BOOLEAN, applyAlignment : BOOLEAN, doEraseGold : BOOLEAN,
                landmarks : BOOLEAN]
    /\ vOut = NoValOut

ValidateNova ==
    /\ vIn.prot = "ProtNovaCtf"
    /\ ~vOut.done
    /\ vOut' = [done |-> TRUE, raised |-> FALSE, errors |-> novaValidate(vIn),
                warnings |-> novaWarnings(vIn)]
    /\ UNCHANGED vIn
    /\ ValIdle

ValidateRecon ==
    /\ vIn.prot = "ProtNovaCtfTomoReconstruction"
    /\ ~vOut.done
    /\ vOut' = IF reconValidateRaises(vIn)
               THEN [done |-> TRUE, raised |-> TRUE, errors |-> {}, warnings |-> {}]
               ELSE [done |-> TRUE, raised |-> FALSE, errors |-> reconValidate(vIn),
                     warnings |-> {}]
    /\ UNCHANGED vIn
    /\ ValIdle

NextValidate == ValidateNova \/ ValidateRecon

\* ------------- ProtNovaCtfTomoDefocus and ProtNovaCtfTomoReconstruction
NoSet == [given |-> FALSE, ids |-> {}]
SetOf(ids) == [given |-> TRUE, ids |-> ids]
TsAt(ids, k) == CHOOSE t \in ids : Rank(t, ids) = k

\* the values of radialFirstParameter and radialSecondParameter (in 1/100),
\* numberOfThreads and numberOfMpi a defocus run may be given
ParamChoices ==
    {[radialFirstParameter |-> 30, radialSecondParameter |-> 5,
      numberOfThreads |-> 8, numberOfMpi |-> 1],
     [radialFirstParameter |-> 50, radialSecondParameter |-> 10,
      numberOfThreads |-> 4, numberOfMpi |-> 2]}

\* ProtNovaCtfTomoDefocus.getInputSetOfTiltSeries
getInputSetOfTiltSeries(in) ==
    IF in.ctfEstimationType = 0 THEN in.imodSet ELSE in.ownSet
\* ProtNovaCtfTomoReconstruction.getInputTs: the defocus run's own
\* inputSetOfTiltSeries pointer, whatever its ctfEstimationType
getInputTs(in) == in.ownSet

\* how the two-protocol workflow calls Plugin.runNovactf(self, 'novaCTF', args)
PosNovaCtfCall(alg, idx) ==
    [prog |-> "novaCTF", alg |-> alg, idx |-> idx, nPos |-> 3, kw |-> {},
     inp |-> <<>>, out |-> <<>>]

\* the methods ProtNovaCtfTomoDefocus defines
DefocusMethods ==
    {"getInputSetOfTiltSeries", "getCorrectionType", "getDefocusFile",
     "getDefocusFileFormat"}

DefocusStepFuncs(type) ==
    <<"convertInputStep",
      IF type = 0 THEN "generateImodDefocusFileStep" ELSE "generateCtffindDefocusFileStep",
      "computeDefocusStep", "getNumberOfIntermediateStacksStep">>

\* ProtNovaCtfTomoDefocus._insertAllSteps: no prerequisites are given, so
\* each step waits for the step inserted before it
DefocusSteps(ids, type) ==
    LET m == Cardinality(ids)
    IN [i \in 1..(4 * m + 1) |->
          IF i = 4 * m + 1
          THEN [func |-> "triggerReconstructionProtocolStep", ts |-> NoTs,
                pre |-> IF i = 1 THEN {} ELSE {i - 1}]
          ELSE [func |-> DefocusStepFuncs(type)[((i - 1) % 4) + 1],
                ts |-> TsAt(ids, (i - 1) \div 4),
                pre |-> IF i = 1 THEN {} ELSE {i - 1}]]

\* (mutant: every defocus file of the folder counted)
CountFrom_AllFiles(files, counter) == Cardinality(files)
\* getNumberOfIntermediateStacksStep: the files counted from 0 upwards
RECURSIVE CountFrom(_, _)
CountFrom(files, counter) ==
    IF counter \in files THEN 1 + CountFrom(files, counter + 1) ELSE 0

\* (mutant: numberOfMpi left at the default of the new protocol)
scheduledProtocol_DefaultMpi(in) ==
    [protTomoCtfDefocus |-> "self",
     radialFirstParameter |-> in.params.radialFirstParameter,
     radialSecondParameter |-> in.params.radialSecondParameter,
     numberOfThreads |-> in.params.numberOfThreads,
     numberOfMpi |-> 1]
\* triggerReconstructionProtocolStep: the protocol it builds
scheduledProtocol(in) ==
    [protTomoCtfDefocus |-> "self",
     radialFirstParameter |-> in.params.radialFirstParameter,
     radialSecondParameter |-> in.params.radialSecondParameter,
     numberOfThreads |-> in.params.numberOfThreads,
     numberOfMpi |-> in.params.numberOfMpi]

NoOutputSet == [defined |-> FALSE, items |-> <<>>, stream |-> "none"]
\* self.outputSetOfTomograms as hasattr and getattr see it
outputSetOfTomograms ==
    IF rAttr = 0 THEN NoOutputSet
    ELSE [defined |-> TRUE, items |-> rSets[rAttr].items, stream |-> rSets[rAttr].stream]
rOutVars == <<rSets, rAttr, rPc, rSet>>

InitWorkflow ==
    /\ wfIn \in {in \in [ctfEstimationType : {0, 1},
                         ownSet : {NoSet} \cup {SetOf(x) : x \in SUBSET TsIds \ {{}}},
                         imodSet : {NoSet} \cup {SetOf(x) : x \in SUBSET TsIds \ {{}}},
                         params : ParamChoices] :
                   /\ in.ctfEstimationType = 1 => (in.ownSet.given /\ ~in.imodSet.given)
                   /\ in.ctfEstimationType = 0 => in.imodSet.given}
    /\ dPhase = "new"
    /\ dSteps = <<>>
    /\ dStatus = <<>>
    /\ dfFiles \in [TsIds -> SUBSET (0..(MaxStacks - 1))]
    /\ numberOfIntermediateStacks = <<>>
    /\ scheduled = <<>>
    /\ rPhase = "new"
    /\ rInput = NoSet
    /\ rSteps = <<>>
    /\ rStatus = <<>>
    /\ rFinal = {}
    /\ wfExtFailed = FALSE
    /\ rSets = <<>>
    /\ rAttr = 0
    /\ rPc = <<>>
    /\ rSet = <<>>

D_insertAllSteps ==
    /\ dPhase = "new"
    /\ dSteps' = DefocusSteps(getInputSetOfTiltSeries(wfIn).ids, wfIn.ctfEstimationType)
    /\ dStatus' = [i \in DOMAIN dSteps' |-> "new"]
    /\ dPhase' = "running"
    /\ UNCHANGED <<wfIn, dfFiles, numberOfIntermediateStacks, scheduled, rPhase,
                   rInput, rSteps, rStatus, rFinal, wfExtFailed, rOutVars>>
    /\ WfIdle

D_startStep(i) ==
    /\ dPhase = "running"
    /\ dStatus[i] = "new"
    /\ \A p \in dSteps[i].pre : dStatus[p] = "finished"
    /\ dStatus' = [dStatus EXCEPT ![i] = "running"]
    /\ UNCHANGED <<wfIn, dPhase, dSteps, dfFiles, numberOfIntermediateStacks,
                   scheduled, rPhase, rInput, rSteps, rStatus, rFinal, wfExtFailed,
                   rOutVars>>
    /\ WfIdle

D_isStep(i, f) == dStatus[i] = "running" /\ dSteps[i].func = f
D_finish(i) == dStatus' = [dStatus EXCEPT ![i] = "finished"]
D_rest == UNCHANGED <<wfIn, dSteps, rPhase, rInput, rSteps, rStatus, rFinal,
                      rOutVars>>

D_convertInputStep(i) ==
    /\ D_isStep(i, "convertInputStep")
    /\ D_finish(i)
    /\ UNCHANGED <<dPhase, dfFiles, numberOfIntermediateStacks, scheduled, wfExtFailed>>
    /\ D_rest /\ WfIdle

generateImodDefocusFileStep(i) ==
    /\ D_isStep(i, "generateImodDefocusFileStep")
    /\ D_finish(i)
    /\ UNCHANGED <<dPhase, dfFiles, numberOfIntermediateStacks, scheduled, wfExtFailed>>
    /\ D_rest /\ WfIdle

generateCtffindDefocusFileStep(i) ==
    /\ D_isStep(i, "generateCtffindDefocusFileStep")
    /\ D_finish(i)
    /\ UNCHANGED <<dPhase, dfFiles, numberOfIntermediateStacks, scheduled, wfExtFailed>>
    /\ D_rest /\ WfIdle

\* computeDefocusStep of the defocus run: novaCTF writes the defocus files
\* 0..n-1 when it succeeds; nothing catches its failure
D_computeDefocusStep(i) ==
    /\ D_isStep(i, "computeDefocusStep")
    /\ \E n \in 0..MaxStacks, failAt \in 0..1 :
         LET r == Exec(<<PosNovaCtfCall("defocus", 0)>>, failAt) IN
         IF r.raised
         THEN /\ dStatus' = [dStatus EXCEPT ![i] = "failed"]
              /\ dPhase' = "failed"
              /\ wfExtFailed' = (wfExtFailed \/ Len(r.ran) >= 1)
              /\ UNCHANGED dfFiles
         ELSE /\ D_finish(i)
              /\ dfFiles' = [dfFiles EXCEPT ![dSteps[i].ts] = @ \cup 0..(n - 1)]
              /\ UNCHANGED <<dPhase, wfExtFailed>>
    /\ UNCHANGED <<numberOfIntermediateStacks, scheduled>>
    /\ D_rest /\ WfIdle

getNumberOfIntermediateStacksStep(i) ==
    /\ D_isStep(i, "getNumberOfIntermediateStacksStep")
    /\ numberOfIntermediateStacks' =
         Append(numberOfIntermediateStacks, CountFrom(dfFiles[dSteps[i].ts], 0))
    /\ D_finish(i)
    /\ UNCHANGED <<dPhase, dfFiles, scheduled, wfExtFailed>>
    /\ D_rest /\ WfIdle

triggerReconstructionProtocolStep(i) ==
    /\ D_isStep(i, "triggerReconstructionProtocolStep")
    /\ scheduled' = Append(scheduled, scheduledProtocol(wfIn))
    /\ D_finish(i)
    /\ dPhase' = "finished"
    /\ UNCHANGED <<dfFiles, numberOfIntermediateStacks, wfExtFailed>>
    /\ D_rest /\ WfIdle

\* ProtNovaCtfTomoReconstruction._insertAllSteps, from the tilt series at
\* position index on; acc holds the steps inserted so far, outs the indices
\* of the createOutputStep steps
RECURSIVE ReconStepsFrom(_, _, _, _, _)
ReconStepsFrom(ids, nstacks, index, acc, outs) ==
    IF index >= Cardinality(ids)
    THEN Append(acc, [func |-> "closeOutputSetsStep", ts |-> NoTs, counter |-> 0,
                      pre |-> outs])
    ELSE LET t == TsAt(ids, index)
             n == nstacks[index + 1]
             convId == Len(acc) + 1
             recId == convId + n + 1
             conv == [func |-> "convertInputStep", ts |-> t, counter |-> 0,
                      pre |-> IF convId = 1 THEN {} ELSE {convId - 1}]
             procs == [c \in 1..n |->
                         [func |-> "processIntermediateStacksStep", ts |-> t,
                          counter |-> c - 1, pre |-> {convId}]]
             rec == [func |-> "computeReconstructionStep", ts |-> t, counter |-> n,
                     pre |-> {convId + c : c \in 1..n}]
             out == [func |-> "createOutputStep", ts |-> t, counter |-> 0,
                     pre |-> {recId}]
         IN ReconStepsFrom(ids, nstacks, index + 1,
                           acc \o <<conv>> \o procs \o <<rec, out>>,
                           outs \cup {recId + 1})
ReconSteps(ids, nstacks) == ReconStepsFrom(ids, nstacks, 0, <<>>, {})

\* the scheduled reconstruction starts once the defocus run has finished;
\* iterating None, or indexing nstacks past its end, raises
R_insertAllSteps ==
    /\ rPhase = "new"
    /\ Len(scheduled) >= 1
    /\ dPhase = "finished"
    /\ rInput' = getInputTs(wfIn)
    /\ IF ~rInput'.given \/ Cardinality(rInput'.ids) > Len(numberOfIntermediateStacks)
       THEN rPhase' = "failed" /\ UNCHANGED <<rSteps, rStatus, rPc, rSet>>
       ELSE /\ rSteps' = ReconSteps(rInput'.ids, numberOfIntermediateStacks)
            /\ rStatus' = [i \in DOMAIN rSteps' |-> "new"]
            /\ rPc' = [i \in DOMAIN rSteps' |-> "getSet"]
            /\ rSet' = [i \in DOMAIN rSteps' |-> 0]
            /\ rPhase' = "running"
    /\ UNCHANGED <<wfIn, dPhase, dSteps, dStatus, dfFiles, numberOfIntermediateStacks,
                   scheduled, rFinal, wfExtFailed, rSets, rAttr>>
    /\ WfIdle

R_startStep(i) ==
    /\ rPhase = "running"
    /\ rStatus[i] = "new"
    /\ \A p \in rSteps[i].pre : rStatus[p] = "finished"
    /\ rStatus' = [rStatus EXCEPT ![i] = "running"]
    /\ UNCHANGED <<wfIn, dPhase, dSteps, dStatus, dfFiles, numberOfIntermediateStacks,
                   scheduled, rPhase, rInput, rSteps, rFinal, wfExtFailed,
                   rOutVars>>
    /\ WfIdle

R_isStep(i, f) == rStatus[i] = "running" /\ rSteps[i].func = f
R_finish(i) == rStatus' = [rStatus EXCEPT ![i] = "finished"]
R_fail(i) == rStatus' = [rStatus EXCEPT ![i] = "failed"] /\ rPhase' = "failed"
R_rest == UNCHANGED <<wfIn, dPhase, dSteps, dStatus, dfFiles,
                      numberOfIntermediateStacks, scheduled, rInput, rSteps>>

R_convertInputStep(i) ==
    /\ R_isStep(i, "convertInputStep")
    /\ R_finish(i)
    /\ UNCHANGED <<rPhase, rFinal, wfExtFailed, rOutVars>>
    /\ R_rest /\ WfIdle

\* processIntermediateStacksStep: the calls it makes when nothing raises
processIntermediateStacksPlan(counter, ali) ==
    <<PosNovaCtfCall("ctfCorrection", counter)>>
    \o (IF ali THEN <<ImodCall("newstack", counter)>> ELSE <<>>)
    \o <<ImodCall("clip", counter), PosNovaCtfCall("filterProjections", counter)>>

\* processIntermediateStacksStep first asks the defocus run for
\* getDefocusFileName(tsId)
processIntermediateStacksStep(i) ==
    /\ R_isStep(i, "processIntermediateStacksStep")
    /\ IF "getDefocusFileName" \notin DefocusMethods
       THEN R_fail(i) /\ UNCHANGED wfExtFailed
       ELSE \E ali \in BOOLEAN :
            \E failAt \in 0..Len(processIntermediateStacksPlan(rSteps[i].counter, ali)) :
              LET r == Exec(processIntermediateStacksPlan(rSteps[i].counter, ali), failAt)
              IN IF r.raised
                 THEN R_fail(i) /\ wfExtFailed' = (wfExtFailed \/ Len(r.ran) >= 1)
                 ELSE R_finish(i) /\ UNCHANGED <<rPhase, wfExtFailed>>
    /\ UNCHANGED <<rFinal, rOutVars>>
    /\ R_rest /\ WfIdle

R_computeReconstructionPlan ==
    <<PosNovaCtfCall("3dctf", 0), ImodCall("trimvol", 0)>>

R_computeReconstructionStep(i) ==
    /\ R_isStep(i, "computeReconstructionStep")
    /\ \E failAt \in 0..Len(R_computeReconstructionPlan) :
         LET r == Exec(R_computeReconstructionPlan, failAt) IN
         IF r.raised
         THEN /\ R_fail(i)
              /\ wfExtFailed' = (wfExtFailed \/ Len(r.ran) >= 1)
              /\ UNCHANGED rFinal
         ELSE /\ R_finish(i)
              /\ rFinal' = rFinal \cup {rSteps[i].ts}
              /\ UNCHANGED <<rPhase, wfExtFailed>>
    /\ UNCHANGED rOutVars
    /\ R_rest /\ WfIdle

R_coAt(i, pc) == R_isStep(i, "createOutputStep") /\ rPc[i] = pc

\* createOutputStep, getOutputSetOfTomograms up to its test: with the
\* attribute present the set is returned, to be appended to
R_createOutputStep_hasattr(i) ==
    /\ R_coAt(i, "getSet")
    /\ IF rAttr # 0
       THEN rPc' = [rPc EXCEPT ![i] = "append"] /\ rSet' = [rSet EXCEPT ![i] = rAttr]
       ELSE rPc' = [rPc EXCEPT ![i] = "create"] /\ UNCHANGED rSet
    /\ UNCHANGED <<rStatus, rPhase, rFinal, wfExtFailed, rSets, rAttr>>
    /\ R_rest /\ WfIdle

\* the else branch of getOutputSetOfTomograms: a new open set is defined as
\* the output, and self.outputSetOfTomograms is returned
R_createOutputStep_create(i) ==
    /\ R_coAt(i, "create")
    /\ rSets' = Append(rSets, NewOpenSet)
    /\ rAttr' = Len(rSets')
    /\ rSet' = [rSet EXCEPT ![i] = rAttr']
    /\ rPc' = [rPc EXCEPT ![i] = "append"]
    /\ UNCHANGED <<rStatus, rPhase, rFinal, wfExtFailed>>
    /\ R_rest /\ WfIdle

\* the rest of createOutputStep: the tomogram is appended to outputTomos
\* when the reconstructed file exists
R_createOutputStep_append(i) ==
    /\ R_coAt(i, "append")
    /\ rSets' = IF rSteps[i].ts \in rFinal
                THEN [rSets EXCEPT ![rSet[i]].items = Append(@, rSteps[i].ts)]
                ELSE rSets
    /\ R_finish(i)
    /\ UNCHANGED <<rPhase, rFinal, wfExtFailed, rAttr, rPc, rSet>>
    /\ R_rest /\ WfIdle

\* closeOutputSetsStep: getOutputSetOfTomograms creates the set when the
\* attribute is missing; the set is then closed
closeOutputSetsStep(i) ==
    /\ R_isStep(i, "closeOutputSetsStep")
    /\ IF rAttr # 0
       THEN /\ rSets' = [rSets EXCEPT ![rAttr].stream = "CLOSED"]
            /\ UNCHANGED rAttr
       ELSE /\ rSets' = Append(rSets, [NewOpenSet EXCEPT !.stream = "CLOSED"])
            /\ rAttr' = Len(rSets')
    /\ R_finish(i)
    /\ rPhase' = "finished"
    /\ UNCHANGED <<rFinal, wfExtFailed, rPc, rSet>>
    /\ R_rest /\ WfIdle

NextWorkflow ==
    \/ D_insertAllSteps
    \/ \E i \in DOMAIN dSteps : D_startStep(i)
    \/ \E i \in DOMAIN dSteps : D_convertInputStep(i)
    \/ \E i \in DOMAIN dSteps : generateImodDefocusFileStep(i)
    \/ \E i \in DOMAIN dSteps : generateCtffindDefocusFileStep(i)
    \/ \E i \in DOMAIN dSteps : D_computeDefocusStep(i)
    \/ \E i \in DOMAIN dSteps : getNumberOfIntermediateStacksStep(i)
    \/ \E i \in DOMAIN dSteps : triggerReconstructionProtocolStep(i)
    \/ R_insertAllSteps
    \/ \E i \in DOMAIN rSteps : R_startStep(i)
    \/ \E i \in DOMAIN rSteps : R_convertInputStep(i)
    \/ \E i \in DOMAIN rSteps : processIntermediateStacksStep(i)
    \/ \E i \in DOMAIN rSteps : R_computeReconstructionStep(i)
    \/ \E i \in DOMAIN rSteps : R_createOutputStep_hasattr(i)
    \/ \E i \in DOMAIN rSteps : R_createOutputStep_create(i)
    \/ \E i \in DOMAIN rSteps : R_createOutputStep_append(i)
    \/ \E i \in DOMAIN rSteps : closeOutputSetsStep(i)

\* ---------------------------------------------------------- specifications
IdleNova ==
    /\ inTsIds = {} /\ inCtfIds = {} /\ phase = "idle" /\ tsDict = {} /\ ctfDict = {}
    /\ nonMatchingTsIdsMsg = {} /\ steps = <<>> /\ status = <<>> /\ failedItems = {}
    /\ finalFile = {} /\ nDefocus = [t \in TsIds |-> 0] /\ calls = [t \in TsIds |-> <<>>]
    /\ attempts = [t \in TsIds |-> <<>>]
    /\ extFailed = [t \in TsIds |-> FALSE] /\ caught = {}
    /\ tomoSets = <<>> /\ tomoAttr = 0 /\ lock = 0 /\ coPc = <<>> /\ coSet = <<>>
IdleConvert == cvIn = NoConvIn /\ cvOut = NoConvOut
IdleValidate == vIn = NoValIn /\ vOut = NoValOut
IdleWorkflow ==
    /\ wfIn = [ctfEstimationType |-> 1, ownSet |-> NoSet, imodSet |-> NoSet,
               params |-> CHOOSE x \in ParamChoices : x.numberOfMpi = 1]
    /\ dPhase = "idle" /\ dSteps = <<>> /\ dStatus = <<>>
    /\ dfFiles = [t \in TsIds |-> {}] /\ numberOfIntermediateStacks = <<>>
    /\ scheduled = <<>> /\ rPhase = "idle" /\ rInput = NoSet /\ rSteps = <<>>
    /\ rStatus = <<>> /\ rFinal = {} /\ wfExtFailed = FALSE
    /\ rSets = <<>> /\ rAttr = 0 /\ rPc = <<>> /\ rSet = <<>>

Init == InitNova /\ IdleConvert /\ IdleValidate /\ IdleWorkflow
Spec == Init /\ [][Next]_vars

InitOfConvert == IdleNova /\ InitConvert /\ IdleValidate /\ IdleWorkflow
SpecConvert == InitOfConvert /\ [][NextConvert]_vars

InitOfValidate == IdleNova /\ IdleConvert /\ InitValidate /\ IdleWorkflow
SpecValidate == InitOfValidate /\ [][NextValidate]_vars

InitOfWorkflow == IdleNova /\ IdleConvert /\ IdleValidate /\ InitWorkflow
SpecWorkflow == InitOfWorkflow /\ [][NextWorkflow]_vars

\* a run of either of the protocols that produce a set of tomograms
InitOutputs == Init \/ InitOfWorkflow
NextOutputs == Next \/ NextWorkflow
SpecOutputs == InitOutputs /\ [][NextOutputs]_vars

\* ================================================================ claims
Inserted == phase \in {"running", "finished", "failed"}
StepIdx(f, t) == CHOOSE i \in DOMAIN steps : steps[i].func = f /\ steps[i].ts = t
Started(f, t) == status[StepIdx(f, t)] # "new"
Finished(f, t) == status[StepIdx(f, t)] = "finished"
Ended(f, t) == status[StepIdx(f, t)] \in {"finished", "failed"}
Registered == {Tomograms.items[k].tsId : k \in 1..Len(Tomograms.items)}

\* C1: a step of a tsId has started only if the step before it in the chain
\* convertInputStep, computeDefocusStep, computeReconstructionStep,
\* createOutputStep has finished, and closeOutputSetStep has started only if
\* createOutputStep of every tsId has finished.
C1_PrerequisiteOrder ==
    Inserted =>
      /\ \A t \in tsDict : \A j \in 1..3 :
           Started(StepFuncs[j + 1], t) => Finished(StepFuncs[j], t)
      /\ Started("closeOutputSetStep", NoTs) =>
           \A t \in tsDict : Finished("createOutputStep", t)
C1_Witness ==
    /\ Inserted
    /\ Cardinality(tsDict) >= 2
    /\ status[StepIdx("closeOutputSetStep", NoTs)] = "running"

C3_MatchingSelected ==
    Inserted =>
      /\ tsDict = inTsIds \cap inCtfIds
      /\ ctfDict = inTsIds \cap inCtfIds
      /\ {steps[i].ts : i \in {k \in DOMAIN steps : steps[k].func # "closeOutputSetStep"}}
           = inTsIds \cap inCtfIds
      /\ \A t \in inTsIds \cap inCtfIds : \A j \in 1..4 :
           Cardinality({i \in DOMAIN steps :
                          steps[i].func = StepFuncs[j] /\ steps[i].ts = t}) = 1
      /\ Len(steps) = 4 * Cardinality(inTsIds \cap inCtfIds) + 1
C3_Witness ==
    /\ Inserted
    /\ tsDict # {}
    /\ inTsIds \ inCtfIds # {}

\* C4: _initialize raises exactly when the inputs share no tsId, and then no
\* step is inserted; otherwise it records the tsIds present in only one of the
\* inputs and goes on with the shared ones.
C4_InitializeRaises ==
    /\ phase # "new" => (phase = "initFailed" <=> inTsIds \cap inCtfIds = {})
    /\ phase = "initFailed" => (steps = <<>> /\ tsDict = {} /\ ctfDict = {})
    /\ Inserted =>
         /\ nonMatchingTsIdsMsg = (inTsIds \ inCtfIds) \cup (inCtfIds \ inTsIds)
         /\ tsDict = inTsIds \cap inCtfIds
         /\ Len(steps) > 0
C4_Witness ==
    /\ Inserted
    /\ inCtfIds \ inTsIds # {}
    /\ nonMatchingTsIdsMsg # {}

\* C5: when convertInputStep succeeds, the re-stacked stack, the .tlt file,
\* the .defocus file and (when the tilt series has a transform) the .xf file
\* hold exactly the views enabled in both the tilt series and its CTF, hence
\* the same number of entries; the .xf file is written only with a transform.
C5_SameViewsInAllFiles ==
    (cvOut.done /\ ~cvOut.failed) =>
      LET common == cvIn.tsEnabled \cap cvIn.ctfEnabled IN
      /\ cvOut.stack = FileOf(common)
      /\ cvOut.tlt = FileOf(common)
      /\ cvOut.defocus = FileOf(common)
      /\ cvOut.xf = IF cvIn.hasTransform THEN FileOf(common) ELSE NoFile
      /\ Cardinality(cvOut.stack.views) = Cardinality(cvOut.tlt.views)
      /\ Cardinality(cvOut.tlt.views) = Cardinality(cvOut.defocus.views)
      /\ cvIn.hasTransform =>
           Cardinality(cvOut.xf.views) = Cardinality(cvOut.defocus.views)
C5_Witness ==
    /\ cvOut.done /\ ~cvOut.failed /\ cvIn.hasTransform
    /\ cvIn.tsEnabled # cvIn.tsItems
    /\ cvIn.ctfEnabled # cvIn.ctfItems
    /\ ~(cvIn.tsEnabled \subseteq cvIn.ctfEnabled)
    /\ ~(cvIn.ctfEnabled \subseteq cvIn.tsEnabled)
    /\ cvOut.defocus.views # {}

\* the tilt series the defocus run is given: the set of the IMOD CTF series
\* when ctfEstimationType is 0, its own input set otherwise
DefocusInput == IF wfIn.ctfEstimationType = 0 THEN wfIn.imodSet.ids ELSE wfIn.ownSet.ids
D_inserted == dPhase \in {"running", "finished", "failed"}
D_idx(f, t) == {i \in DOMAIN dSteps : dSteps[i].func = f /\ dSteps[i].ts = t}
D_started(i) == dStatus[i] # "new"
D_finished(i) == dStatus[i] = "finished"
D_trigger == D_idx("triggerReconstructionProtocolStep", NoTs)
GenerationOf(type) ==
    IF type = 0 THEN "generateImodDefocusFileStep" ELSE "generateCtffindDefocusFileStep"

\* C6: in a ProtNovaCtfTomoDefocus run every input tilt series gets
\* convertInputStep, the one defocus-file generation step of its
\* ctfEstimationType, computeDefocusStep and getNumberOfIntermediateStacksStep,
\* each started only after the one before it has finished;
\* triggerReconstructionProtocolStep starts only after all of them, and once
\* it has finished exactly one ProtNovaCtfTomoReconstruction is scheduled,
\* pointing at this run and carrying its radialFirstParameter,
\* radialSecondParameter, numberOfThreads and numberOfMpi.
C6_DefocusOrderAndTrigger ==
    D_inserted =>
      /\ \A t \in DefocusInput :
           /\ \A f \in {"convertInputStep", GenerationOf(wfIn.ctfEstimationType),
                        "computeDefocusStep", "getNumberOfIntermediateStacksStep"} :
                Cardinality(D_idx(f, t)) = 1
           /\ D_idx(GenerationOf(1 - wfIn.ctfEstimationType), t) = {}
           /\ \A i \in D_idx(GenerationOf(wfIn.ctfEstimationType), t) :
                D_started(i) => \A j \in D_idx("convertInputStep", t) : D_finished(j)
           /\ \A i \in D_idx("computeDefocusStep", t) :
                D_started(i) =>
                  \A j \in D_idx(GenerationOf(wfIn.ctfEstimationType), t) : D_finished(j)
           /\ \A i \in D_idx("getNumberOfIntermediateStacksStep", t) :
                D_started(i) => \A j \in D_idx("computeDefocusStep", t) : D_finished(j)
      /\ Cardinality(D_trigger) = 1
      /\ \A i \in D_trigger :
           /\ D_started(i) => \A j \in DOMAIN dSteps \ {i} : D_finished(j)
           /\ ~D_finished(i) => scheduled = <<>>
           /\ D_finished(i) =>
                /\ Len(scheduled) = 1
                /\ scheduled[1].protTomoCtfDefocus = "self"
                /\ scheduled[1].radialFirstParameter = wfIn.params.radialFirstParameter
                /\ scheduled[1].radialSecondParameter = wfIn.params.radialSecondParameter
                /\ scheduled[1].numberOfThreads = wfIn.params.numberOfThreads
                /\ scheduled[1].numberOfMpi = wfIn.params.numberOfMpi

C6_Witness ==
    /\ dPhase = "finished"
    /\ Cardinality(DefocusInput) = MaxTs
    /\ wfIn.params.numberOfMpi # 1
    /\ Len(scheduled) = 1

R_ended == rPhase \in {"finished", "failed"} /\ \A i \in DOMAIN rStatus : rStatus[i] # "running"

\* C7: the reconstruction a defocus run triggers works on the tilt series
\* the defocus run worked on, whether ctfEstimationType is 0 or 1, and when
\* no external program fails its outputSetOfTomograms ends with exactly one
\* tomogram per input tilt series.
C7_SameTiltSeriesOneTomogramEach ==
    /\ rPhase \in {"running", "finished", "failed"} =>
         (rInput.given /\ rInput.ids = DefocusInput)
    /\ (R_ended /\ ~wfExtFailed) =>
         /\ outputSetOfTomograms.defined
         /\ Len(outputSetOfTomograms.items) = Cardinality(DefocusInput)
         /\ {outputSetOfTomograms.items[k] : k \in DOMAIN outputSetOfTomograms.items}
              = DefocusInput

\* the external calls of one tilt series, as C8 orders them
Positions(log, prog, alg) ==
    {k \in 1..Len(log) : log[k].prog = prog /\ log[k].alg = alg}
InvocationOrderOk(log) ==
    /\ \A k \in 1..Len(log) :
         log[k].prog = "novaCTF" =>
           log[k].alg \in {"defocus", "ctfCorrection", "filterProjections", "3dctf"}
    /\ Positions(log, "novaCTF", "defocus") = {1}
    /\ \A k1, k2 \in Positions(log, "novaCTF", "ctfCorrection") :
         log[k1].idx = log[k2].idx => k1 = k2
    /\ \A k1, k2 \in Positions(log, "novaCTF", "filterProjections") :
         log[k1].idx = log[k2].idx => k1 = k2
    /\ Cardinality(Positions(log, "novaCTF", "3dctf")) <= 1
    /\ \A k \in Positions(log, "novaCTF", "3dctf") :
         \A k2 \in 1..Len(log) :
           (log[k2].prog = "novaCTF" /\ log[k2].alg # "3dctf") => k2 < k
    /\ \A k \in Positions(log, "trimvol", "") :
         \E k2 \in Positions(log, "novaCTF", "3dctf") : k2 < k

\* C8 (as claimed): for a tilt series whose input was converted, once
\* computeDefocusStep has finished the novaCTF executable has been invoked
\* with defocus exactly once and first, and all the invocations follow the
\* order defocus, ctfCorrection/filterProjections per stack, 3dctf, trimvol.
C8_InvocationOrder ==
    Inserted =>
      \A t \in tsDict \ failedItems :
        Finished("computeDefocusStep", t) => InvocationOrderOk(calls[t])

\* C9: closeOutputSetStep raises exactly when no tomogram was registered;
\* with at least one registered it closes the set and does not raise, however
\* many tilt series failed.
C9_CloseRaisesIffEmpty ==
    (Inserted /\ Ended("closeOutputSetStep", NoTs)) =>
      /\ status[StepIdx("closeOutputSetStep", NoTs)] = "failed"
           <=> (~Tomograms.defined \/ Len(Tomograms.items) = 0)
      /\ Len(Tomograms.items) >= 1 =>
           (Finished("closeOutputSetStep", NoTs) /\ Tomograms.stream = "CLOSED")
C9_Witness ==
    /\ Inserted
    /\ Finished("closeOutputSetStep", NoTs)
    /\ Len(Tomograms.items) >= 1
    /\ Len(Tomograms.items) < Cardinality(tsDict)
    /\ failedItems # {}

StagePos(log, prog, alg, i) ==
    {k \in 1..Len(log) : log[k].prog = prog /\ log[k].alg = alg /\ log[k].idx = i}
\* the stages of the intermediate stacks 0..n-1 are in a log, in order, each
\* reading what the stage before it wrote
StageOrderOk(log, n) ==
    \A i \in 0..(n - 1) :
      /\ Cardinality(StagePos(log, "novaCTF", "ctfCorrection", i)) = 1
      /\ Cardinality(StagePos(log, "clip", "", i)) = 1
      /\ Cardinality(StagePos(log, "novaCTF", "filterProjections", i)) = 1
      /\ Cardinality(StagePos(log, "newstack", "", i)) <= 1
      /\ StagePos(log, "newstack", "", i) = {} <=> StagePos(log, "newstack", "", 0) = {}
      /\ \A k \in StagePos(log, "newstack", "", i) :
           /\ k - 1 \in StagePos(log, "novaCTF", "ctfCorrection", i)
           /\ log[k].inp = log[k - 1].out
      /\ \A k \in StagePos(log, "clip", "", i) :
           /\ k - 1 \in StagePos(log, "newstack", "", i)
                        \cup StagePos(log, "novaCTF", "ctfCorrection", i)
           /\ log[k].inp = log[k - 1].out
      /\ \A k \in StagePos(log, "novaCTF", "filterProjections", i) :
           /\ k - 1 \in StagePos(log, "clip", "", i)
           /\ log[k].inp = log[k - 1].out
           /\ \A k2 \in StagePos(log, "novaCTF", "ctfCorrection", i + 1) : k < k2

CaughtIn(f, t) == StepIdx(f, t) \in caught
\* the tsIds of the tomograms held by any SetOfTomograms created
InSomeSet(t) ==
    \E k \in DOMAIN tomoSets : \E j \in DOMAIN tomoSets[k].items :
      tomoSets[k].items[j].tsId = t

C13_ConvertFailureSkipsTsId ==
    Inserted =>
      \A t \in tsDict :
        CaughtIn("convertInputStep", t) =>
          /\ t \in failedItems
          /\ Finished("convertInputStep", t)
          /\ attempts[t] = <<>>
          /\ ~InSomeSet(t)
          /\ coSet[StepIdx("createOutputStep", t)] = 0

\* C14: an exception inside convertInputStep, computeDefocusStep,
\* computeReconstructionStep or createOutputStep is caught in the step: no
\* such step ever fails and a finished step holds no lock; a step waits only
\* for steps of its own tsId, and whether a tomogram of a tsId is in the
\* output once its createOutputStep has finished depends on its own final
\* file and its own registration only, whatever was caught for other tsIds.
C14_FailureIsolation ==
    Inserted =>
      /\ \A i \in DOMAIN steps :
           steps[i].func # "closeOutputSetStep" =>
             /\ status[i] # "failed"
             /\ \A q \in steps[i].pre : steps[q].ts = steps[i].ts
             /\ status[i] = "finished" => lock # i
      /\ \A u \in tsDict :
           Finished("createOutputStep", u) =>
             (u \in Registered <=>
                (u \in finalFile /\ ~CaughtIn("createOutputStep", u)))
C14_Witness ==
    /\ Inserted
    /\ \E t, u \in tsDict :
         /\ t # u
         /\ CaughtIn("convertInputStep", t)
         /\ CaughtIn("createOutputStep", t)
         /\ status[StepIdx("createOutputStep", u)] = "finished"
         /\ u \in Registered
         /\ CaughtIn("computeDefocusStep", u)
         /\ CaughtIn("computeReconstructionStep", u)

\* C15: a createOutputStep that has finished (and whose registration did not
\* raise, C14) has put a tomogram of its tsId in the output exactly when the
\* final file <extra>/<tsId>/<tsId>.mrc existed; the tomogram carries that
\* file name, the tsId, the input sampling rate and the acquisition of the
\* tilt series; without the file the step has not touched the output set.
C15_RegistersIffFileExists ==
    Inserted =>
      \A t \in tsDict :
        LET i == StepIdx("createOutputStep", t) IN
        (status[i] = "finished" /\ i \notin caught) =>
          /\ t \in Registered <=> t \in finalFile
          /\ \A k \in DOMAIN Tomograms.items :
               Tomograms.items[k].tsId = t =>
                 Tomograms.items[k] =
                   [fileName |-> <<"extra", t, "mrc">>, tsId |-> t,
                    samplingRate |-> "inputSamplingRate",
                    acquisition |-> <<"acquisition", t>>]
          /\ t \notin finalFile => (coSet[i] = 0 /\ ~InSomeSet(t))
C15_Witness ==
    /\ Inserted
    /\ \E t, u \in tsDict :
         /\ Finished("createOutputStep", t) /\ t \in Registered
         /\ Finished("createOutputStep", u) /\ u \notin finalFile
         /\ tomoAttr # 0

R_inserted == rPhase \in {"running", "finished", "failed"} /\ rSteps # <<>>
R_idx(f, t) == {i \in DOMAIN rSteps : rSteps[i].func = f /\ rSteps[i].ts = t}
R_started(i) == rStatus[i] # "new"
R_finished(i) == rStatus[i] = "finished"

\* C17 (as claimed): in ProtNovaCtfTomoReconstruction at most one
\* createOutputStep is running at any time, and at most one set of
\* tomograms is ever created.
C17_NoConcurrentCreate ==
    R_inserted =>
      /\ Cardinality({i \in DOMAIN rSteps : R_isStep(i, "createOutputStep")}) <= 1
      /\ Len(rSets) <= 1

\* C18: a set of tomograms that is the output of ProtNovaCtf or of
\* ProtNovaCtfTomoReconstruction is OPEN as long as the closing step has not
\* run and CLOSED once it has, and after the closing step has run no set
\* of tomograms changes.
NovaClosed ==
    Inserted /\ status[StepIdx("closeOutputSetStep", NoTs)] \in {"finished", "failed"}
ReconClosed ==
    R_inserted /\ \E i \in R_idx("closeOutputSetsStep", NoTs) : R_finished(i)
C18_StreamState ==
    /\ tomoAttr # 0 =>
         tomoSets[tomoAttr].stream = (IF NovaClosed THEN "CLOSED" ELSE "OPEN")
    /\ rAttr # 0 =>
         rSets[rAttr].stream = (IF ReconClosed THEN "CLOSED" ELSE "OPEN")
C18_NoAppendAfterClose ==
    [][(NovaClosed => tomoSets' = tomoSets) /\ (ReconClosed => rSets' = rSets)]_vars
C18_OpenUntilClosed == []C18_StreamState /\ C18_NoAppendAfterClose
C18_Witness ==
    /\ ReconClosed
    /\ rAttr # 0
    /\ Len(rSets[rAttr].items) >= 1
    /\ rSets[rAttr].stream = "CLOSED"

\* C19 (as claimed): in ProtNovaCtfTomoReconstruction, for every tilt
\* series, each processIntermediateStacksStep has started only after
\* convertInputStep of the tilt series finished, computeReconstructionStep
\* has started only after all its processIntermediateStacksStep finished,
\* and only after its convertInputStep finished, whatever the number of
\* intermediate stacks.
C19_ReconStepOrder ==
    R_inserted =>
      \A t \in rInput.ids :
        /\ \A i \in R_idx("processIntermediateStacksStep", t) :
             R_started(i) => \A j \in R_idx("convertInputStep", t) : R_finished(j)
        /\ \A i \in R_idx("computeReconstructionStep", t) :
             R_started(i) =>
               /\ \A j \in R_idx("processIntermediateStacksStep", t) : R_finished(j)
               /\ \A j \in R_idx("convertInputStep", t) : R_finished(j)

\* the least k >= 0 with no file <tsId>.defocus_<k>
LeastMissing(files) ==
    CHOOSE k \in 0..MaxStacks : k \notin files /\ \A j \in 0..(k - 1) : j \in files

\* C20: numberOfIntermediateStacks holds one entry per tilt series whose
\* getNumberOfIntermediateStacksStep has finished, in the order of the
\* steps, and the entry is the least k for which <tsId>.defocus_<k> does
\* not exist: files numbered after a gap are not counted.
C20_CountsConsecutiveFiles ==
    D_inserted =>
      /\ Len(numberOfIntermediateStacks) =
           Cardinality({t \in DefocusInput :
                          \A i \in D_idx("getNumberOfIntermediateStacksStep", t) :
                            D_finished(i)})
      /\ \A k \in 1..Len(numberOfIntermediateStacks) :
           numberOfIntermediateStacks[k] = LeastMissing(dfFiles[TsAt(DefocusInput, k - 1)])
C20_Witness ==
    /\ D_inserted
    /\ \E k \in 1..Len(numberOfIntermediateStacks) :
         LET files == dfFiles[TsAt(DefocusInput, k - 1)] IN
         /\ \E f \in files : f > numberOfIntermediateStacks[k]
    /\ \E k \in 1..Len(numberOfIntermediateStacks) : numberOfIntermediateStacks[k] = MaxStacks

\* C21 (as claimed): when the reconstruction inserts its steps the list
\* numberOfIntermediateStacks has one entry per tilt series of the defocus
\* run, and every tilt series of the reconstruction is one of them, gets as
\* many processIntermediateStacksStep steps as defocus files were counted
\* for that same tilt series, and has that number passed to its
\* computeReconstructionStep.
C21_StackCountAlignment ==
    R_inserted =>
      /\ Len(numberOfIntermediateStacks) = Cardinality(DefocusInput)
      /\ \A t \in rInput.ids :
           /\ t \in DefocusInput
           /\ Cardinality(R_idx("processIntermediateStacksStep", t))
                = LeastMissing(dfFiles[t])
           /\ numberOfIntermediateStacks[Rank(t, DefocusInput) + 1]
                = LeastMissing(dfFiles[t])
           /\ \A i \in R_idx("computeReconstructionStep", t) :
                rSteps[i].counter = LeastMissing(dfFiles[t])
====
